---------------------------- MODULE Spec2Model ----------------------------
(***************************************************************************)
(* Model of rovella's platform layer (src/src/platform.rs): the Window     *)
(* facade, the message-loop backend (win32: window class, window           *)
(* procedure, PeekMessage pump) and the connection/poll backend (xlib/xcb: *)
(* display, connection, atoms, xcb_poll_for_event loop), together with the *)
(* two pure translation tables EventType::from(u32) and Key::from(u16).    *)
(***************************************************************************)
EXTENDS Integers, Sequences, FiniteSets, TLC

(***************************************************************************)
(* Native constants used by the source (winuser.h / xproto.h / keysymdef). *)
(***************************************************************************)
WM_CREATE == 1
WM_DESTROY == 2
WM_SIZE == 5
WM_CLOSE == 16
WM_QUIT == 18
WM_ERASEBKGND == 20
WM_SHOWWINDOW == 24
WM_KEYDOWN == 256
WM_KEYUP == 257
WM_CHAR == 258
WM_SYSKEYDOWN == 260
WM_SYSKEYUP == 261
WM_MOUSEMOVE == 512
WM_LBUTTONDOWN == 513
WM_LBUTTONUP == 514
WM_RBUTTONDOWN == 516
WM_RBUTTONUP == 517
WM_MBUTTONDOWN == 519
WM_MBUTTONUP == 520
WM_MOUSEWHEEL == 522

XCB_KEY_PRESS == 2
XCB_KEY_RELEASE == 3
XCB_BUTTON_PRESS == 4
XCB_BUTTON_RELEASE == 5
XCB_MOTION_NOTIFY == 6
XCB_CLIENT_MESSAGE == 33
XCB_BUTTON_INDEX_1 == 1
XCB_BUTTON_INDEX_2 == 2
XCB_BUTTON_INDEX_3 == 3
ShiftMask == 1
XK_Escape == 65307

\* widths of the integer types the source converts between
U16 == 65536

\* the null pointer / null handle
NULL == 0

(***************************************************************************)
(* Integer conversions, as the source's `as` casts and the win32 macros    *)
(* compute them.                                                           *)
(***************************************************************************)
\* `v as u16`: the low 16 bits
AsU16(v) == v % U16

\* a 16-bit pattern read as i16 (EventData.signed)
Signed16(bits) == IF bits >= 32768 THEN bits - U16 ELSE bits

\* `v as i16` stored in the 2-byte EventData: its bit pattern
I16Bits(v) == v % U16

\* WPARAM / LPARAM words are kept as their two low 16-bit halves (the
\* source reads nothing above bit 31): MAKELONG, LOWORD, HIWORD
MakeLong(lo, hi) == [lo |-> lo % U16, hi |-> hi % U16]
LoWord(v) == v.lo
HiWord(v) == v.hi

\* GET_X_LPARAM / GET_Y_LPARAM: (int)(short)LOWORD / HIWORD
GET_X_LPARAM(lparam) == Signed16(LoWord(lparam))
GET_Y_LPARAM(lparam) == Signed16(HiWord(lparam))

\* fault-seeded variant: the code cut to 8 bits
WparamAsU8(wparam) == LoWord(wparam) % 256

\* `wparam as u16` of the key messages
WparamAsU16(wparam) == LoWord(wparam)

\* fault-seeded variant: the high word read unsigned
GetWheelDeltaUnsigned(wparam) == HiWord(wparam)

\* GET_WHEEL_DELTA_WPARAM: (short)HIWORD(wparam)
GET_WHEEL_DELTA_WPARAM(wparam) == Signed16(HiWord(wparam))

\* x & 0x7f, x & 1 on unsigned values
\* fault-seeded variant: the whole type field selects the case
And7fUnmasked(v) == v

And7f(v) == v % 128
AndShiftMask(v) == v % 2

(***************************************************************************)
(* Event model: Event { e_type, data0, data1 }; EventData is a 2-byte      *)
(* union kept here as its 16-bit pattern; EventData::default() is zero.    *)
(***************************************************************************)
EventTypes == {"WinClose", "WinShow", "WinResize", "KeyDown", "KeyUp", "MouseMove", "MouseWheel", "MouseLeftBtnDown", "MouseLeftBtnUp", "MouseMidBtnDown", "MouseMidBtnUp", "MouseRightBtnDown", "MouseRightBtnUp", "None"}

EventDataDefault == 0

Event(t, d0, d1) == [e_type |-> t, data0 |-> d0, data1 |-> d1]

\* fault-seeded variant: a close event that carries a payload
WinCloseEventPayload == Event("WinClose", 1, EventDataDefault)

\* Event { e_type: EventType::WinClose, data0: default, data1: default }
WinCloseEvent == Event("WinClose", EventDataDefault, EventDataDefault)

(***************************************************************************)
(* `match val { pattern => value, ..., _ => None }` over integer patterns: *)
(* the first arm whose pattern equals the value, the `_` arm otherwise.    *)
(* Both translation tables end in `_ => ...::None`.                        *)
(***************************************************************************)
MatchArm(arms, val) ==
    LET hits == {i \in DOMAIN arms : arms[i][1] = val}
    IN  IF hits = {} THEN "None"
        ELSE arms[CHOOSE i \in hits : \A j \in hits : i <= j][2]

(***************************************************************************)
(* impl From<u32> for EventType (windows): the match arms in source order. *)
(***************************************************************************)
\* fault-seeded variant: the middle and right button-down codes exchanged
EventTypeArmsSwapped ==
    << <<WM_CLOSE, "WinClose">>, <<WM_SHOWWINDOW, "WinShow">>, <<WM_SIZE, "WinResize">>,
       <<WM_KEYDOWN, "KeyDown">>, <<WM_SYSKEYDOWN, "KeyDown">>,
       <<WM_KEYUP, "KeyUp">>, <<WM_SYSKEYUP, "KeyUp">>,
       <<WM_MOUSEMOVE, "MouseMove">>, <<WM_MOUSEWHEEL, "MouseWheel">>,
       <<WM_LBUTTONDOWN, "MouseLeftBtnDown">>, <<WM_RBUTTONDOWN, "MouseMidBtnDown">>,
       <<WM_MBUTTONDOWN, "MouseRightBtnDown">>, <<WM_LBUTTONUP, "MouseLeftBtnUp">>,
       <<WM_MBUTTONUP, "MouseMidBtnUp">>, <<WM_RBUTTONUP, "MouseRightBtnUp">> >>

EventTypeArms ==
    << <<WM_CLOSE, "WinClose">>, <<WM_SHOWWINDOW, "WinShow">>, <<WM_SIZE, "WinResize">>,
       <<WM_KEYDOWN, "KeyDown">>, <<WM_SYSKEYDOWN, "KeyDown">>,
       <<WM_KEYUP, "KeyUp">>, <<WM_SYSKEYUP, "KeyUp">>,
       <<WM_MOUSEMOVE, "MouseMove">>, <<WM_MOUSEWHEEL, "MouseWheel">>,
       <<WM_LBUTTONDOWN, "MouseLeftBtnDown">>, <<WM_MBUTTONDOWN, "MouseMidBtnDown">>,
       <<WM_RBUTTONDOWN, "MouseRightBtnDown">>, <<WM_LBUTTONUP, "MouseLeftBtnUp">>,
       <<WM_MBUTTONUP, "MouseMidBtnUp">>, <<WM_RBUTTONUP, "MouseRightBtnUp">> >>

EventTypeFrom(msg) == MatchArm(EventTypeArms, msg)

(***************************************************************************)
(* add_event_to_que: the queue is reached through the window's user-data   *)
(* slot.  `slot` is the slot's content (NULL or the queue's address), `q`  *)
(* the queue that address refers to, `err` what GetLastError() returns.    *)
(* Result: the queue afterwards and the diagnostics emitted.               *)
(***************************************************************************)
\* fault-seeded variant: push_front instead of push_back
add_event_to_que_front(event, slot, q, err) ==
    IF slot # NULL
    THEN [queue |-> <<event>> \o q, log |-> <<>>]
    ELSE [queue |-> q, log |-> IF err # 0 THEN <<"error: window proc couldn't retrieve event queue">> ELSE <<>>]

\* fault-seeded variant: the error is logged whatever GetLastError returns
add_event_to_que_logs(event, slot, q, err) ==
    IF slot # NULL
    THEN [queue |-> Append(q, event), log |-> <<>>]
    ELSE [queue |-> q, log |-> <<"error: window proc couldn't retrieve event queue">>]

add_event_to_que(event, slot, q, err) ==
    IF slot # NULL
    THEN [queue |-> Append(q, event), log |-> <<>>]
    ELSE [queue |-> q, log |-> IF err # 0 THEN <<"error: window proc couldn't retrieve event queue">> ELSE <<>>]

\* fault-seeded variant: the catch-all arm enqueues an event of kind None
UnrecognizedEnqueuesNone(q) ==
    [queue |-> Append(q, Event("None", EventDataDefault, EventDataDefault)), log |-> <<>>]

\* the catch-all arm `_ => {}` of a match on the notification: nothing is
\* enqueued, nothing is logged
Unrecognized(q) == [queue |-> q, log |-> <<>>]

(***************************************************************************)
(* window_proc: the win32 callback.  Result: the queue afterwards, whether *)
(* PostQuitMessage was called, whether the message was forwarded to        *)
(* DefWindowProcA, and the diagnostics emitted.                            *)
(***************************************************************************)
\* fault-seeded variant: every message is forwarded to DefWindowProcA
ProcResultForwarded(r, quit, fwd) == [queue |-> r.queue, log |-> r.log, quit |-> quit, def |-> TRUE]

ProcResult(r, quit, fwd) == [queue |-> r.queue, log |-> r.log, quit |-> quit, def |-> fwd]

window_proc(msg, wparam, lparam, slot, q, err) ==
    LET none == [queue |-> q, log |-> <<>>]
        push(t, d0, d1) == add_event_to_que(Event(t, d0, d1), slot, q, err)
        z_delta == GET_WHEEL_DELTA_WPARAM(wparam)
    IN  IF msg = WM_CREATE THEN ProcResult(none, FALSE, TRUE)
        ELSE CASE msg = WM_ERASEBKGND -> ProcResult(none, FALSE, FALSE)
               [] msg = WM_CLOSE ->
                    ProcResult(add_event_to_que(WinCloseEvent, slot, q, err), FALSE, FALSE)
               [] msg = WM_DESTROY -> ProcResult(none, TRUE, FALSE)
               [] msg \in {WM_KEYDOWN, WM_SYSKEYDOWN} ->
                    ProcResult(push("KeyDown", WparamAsU16(wparam), EventDataDefault), FALSE, TRUE)
               [] msg \in {WM_KEYUP, WM_SYSKEYUP} ->
                    ProcResult(push("KeyUp", WparamAsU16(wparam), EventDataDefault), FALSE, TRUE)
               [] msg = WM_MOUSEMOVE ->
                    ProcResult(push("MouseMove", I16Bits(GET_X_LPARAM(lparam)), I16Bits(GET_Y_LPARAM(lparam))), FALSE, TRUE)
               [] msg = WM_MOUSEWHEEL ->
                    IF z_delta # 0
                    THEN IF z_delta < 0
                         THEN ProcResult(push("MouseWheel", I16Bits(-1), EventDataDefault), FALSE, TRUE)
                         ELSE ProcResult(push("MouseWheel", I16Bits(1), EventDataDefault), FALSE, TRUE)
                    ELSE ProcResult(none, FALSE, TRUE)
               [] msg = WM_LBUTTONDOWN ->
                    ProcResult(push("MouseLeftBtnDown", EventDataDefault, EventDataDefault), FALSE, TRUE)
               [] msg = WM_MBUTTONDOWN ->
                    ProcResult(push("MouseMidBtnDown", EventDataDefault, EventDataDefault), FALSE, TRUE)
               [] msg = WM_RBUTTONDOWN ->
                    ProcResult(push("MouseRightBtnDown", EventDataDefault, EventDataDefault), FALSE, TRUE)
               [] msg = WM_LBUTTONUP ->
                    ProcResult(push("MouseLeftBtnUp", EventDataDefault, EventDataDefault), FALSE, TRUE)
               [] msg = WM_MBUTTONUP ->
                    ProcResult(push("MouseMidBtnUp", EventDataDefault, EventDataDefault), FALSE, TRUE)
               [] msg = WM_RBUTTONUP ->
                    ProcResult(push("MouseRightBtnUp", EventDataDefault, EventDataDefault), FALSE, TRUE)
               [] OTHER -> ProcResult(Unrecognized(q), FALSE, TRUE)

(***************************************************************************)
(* impl From<u16> for Key.  The match arms, in source order; a match takes *)
(* the first arm whose pattern equals the value, `_` otherwise (MatchArm).  *)
(***************************************************************************)
KeyArmsWindows ==
    << <<8, "Backspace">>, <<13, "Enter">>, <<9, "Tab">>, <<16, "Shift">>, <<17, "Control">>,
       <<19, "Pause">>, <<20, "Capital">>, <<27, "Escape">>, <<28, "Convert">>,
       <<29, "NonConvert">>, <<30, "Accept">>, <<31, "ModeChange">>, <<32, "Space">>,
       <<33, "Prior">>, <<34, "Next">>, <<35, "End">>, <<36, "Home">>, <<37, "Left">>,
       <<38, "Up">>, <<39, "Right">>, <<40, "Down">>, <<41, "Select">>, <<42, "Print">>,
       <<43, "Execute">>, <<44, "Snapshot">>, <<45, "Insert">>, <<46, "Delete">>, <<47, "Help">>,
       <<65, "A">>, <<66, "B">>, <<67, "C">>, <<68, "D">>, <<69, "E">>, <<70, "F">>, <<71, "G">>,
       <<72, "H">>, <<73, "I">>, <<74, "J">>, <<75, "K">>, <<76, "L">>, <<77, "M">>, <<78, "N">>,
       <<79, "O">>, <<80, "P">>, <<81, "Q">>, <<82, "R">>, <<83, "S">>, <<84, "T">>, <<85, "U">>,
       <<86, "V">>, <<87, "W">>, <<88, "X">>, <<89, "Y">>, <<90, "Z">>,
       <<48, "N0">>, <<49, "N1">>, <<50, "N2">>, <<51, "N3">>, <<52, "N4">>, <<53, "N5">>,
       <<54, "N6">>, <<55, "N7">>, <<56, "N8">>, <<57, "N9">>,
       <<91, "Lwin">>, <<92, "Rwin">>, <<93, "Apps">>, <<95, "Sleep">>,
       <<96, "Numpad0">>, <<97, "Numpad1">>, <<98, "Numpad2">>, <<99, "Numpad3">>,
       <<100, "Numpad4">>, <<101, "Numpad5">>, <<102, "Numpad6">>, <<103, "Numpad7">>,
       <<104, "Numpad8">>, <<105, "Numpad9">>, <<106, "Multiply">>, <<107, "Add">>,
       <<108, "Separator">>, <<109, "Subtract">>, <<110, "Decimal">>, <<111, "Divide">>,
       <<112, "F1">>, <<113, "F2">>, <<114, "F3">>, <<115, "F4">>, <<116, "F5">>, <<117, "F6">>,
       <<118, "F7">>, <<119, "F8">>, <<120, "F9">>, <<121, "F10">>, <<122, "F11">>, <<123, "F12">>,
       <<124, "F13">>, <<125, "F14">>, <<126, "F15">>, <<127, "F16">>, <<128, "F17">>,
       <<129, "F18">>, <<130, "F19">>, <<131, "F20">>, <<132, "F21">>, <<133, "F22">>,
       <<134, "F23">>, <<135, "F24">>,
       <<144, "Numlock">>, <<145, "ScrollLock">>, <<146, "NumpadEqual">>,
       <<160, "LShift">>, <<161, "RShift">>, <<162, "LControl">>, <<163, "RControl">>,
       <<164, "LAlt">>, <<165, "RAlt">>,
       <<186, "Semicolon">>, <<187, "Plus">>, <<188, "Comma">>, <<189, "Minus">>,
       <<190, "Period">>, <<191, "Slash">>, <<192, "Grave">> >>

KeyArmsLinux == << <<XK_Escape, "Escape">> >>

\* fault-seeded variant: the code cut to 8 bits before the match
KeyFromWindowsU8(val) == MatchArm(KeyArmsWindows, val % 256)

KeyFromWindows(val) == MatchArm(KeyArmsWindows, val)

KeyFromLinux(val) == MatchArm(KeyArmsLinux, val)


(***************************************************************************)
(* The connection/poll backend's translation of one polled native event    *)
(* (the body of update's loop, between xcb_poll_for_event and libc::free). *)
(* `ev` is the native event: rt = response_type, detail, root_x / root_y,  *)
(* d0 = data.data32()[0].  Result: the queue afterwards and diagnostics.   *)
(***************************************************************************)
\* XKeycodeToKeysym(display, keycode, index) on the display's keyboard
\* mapping: one keysym per (keycode, column); NoSymbol (0) elsewhere.
Keymap ==
    [kc \in {9, 38, 39, 50} |->
        CASE kc = 9 -> <<65307, 0>>
          [] kc = 38 -> <<97, 65>>
          [] kc = 39 -> <<115, 83>>
          [] kc = 50 -> <<65505, 65505>>]

XKeycodeToKeysym(keycode, index) ==
    IF keycode \in DOMAIN Keymap /\ index \in {0, 1} THEN Keymap[keycode][index + 1] ELSE 0

\* fault-seeded variant: every client message is taken for the close request
IsDeleteMessageAny(ev, wm_delete_win) == TRUE

\* (*cm).data.data32()[0] == self.wm_delete_win
IsDeleteMessage(ev, wm_delete_win) == ev.d0 = wm_delete_win

xcb_translate(ev, wm_delete_win, q) ==
    LET event_enum == And7f(ev.rt)
        push(t, d0, d1) == [queue |-> Append(q, Event(t, d0, d1)), log |-> <<>>]
        key == XKeycodeToKeysym(ev.detail, AndShiftMask(ev.detail))
    IN  CASE event_enum = XCB_KEY_PRESS -> push("KeyDown", AsU16(key), EventDataDefault)
          [] event_enum = XCB_KEY_RELEASE -> push("KeyUp", AsU16(key), EventDataDefault)
          [] event_enum = XCB_MOTION_NOTIFY -> push("MouseMove", I16Bits(ev.x), I16Bits(ev.y))
          [] event_enum = XCB_BUTTON_PRESS ->
               CASE ev.detail = XCB_BUTTON_INDEX_1 -> push("MouseLeftBtnDown", EventDataDefault, EventDataDefault)
                 [] ev.detail = XCB_BUTTON_INDEX_2 -> push("MouseMidBtnDown", EventDataDefault, EventDataDefault)
                 [] ev.detail = XCB_BUTTON_INDEX_3 -> push("MouseRightBtnDown", EventDataDefault, EventDataDefault)
                 [] OTHER -> Unrecognized(q)
          [] event_enum = XCB_BUTTON_RELEASE ->
               CASE ev.detail = XCB_BUTTON_INDEX_1 -> push("MouseLeftBtnUp", EventDataDefault, EventDataDefault)
                 [] ev.detail = XCB_BUTTON_INDEX_2 -> push("MouseMidBtnUp", EventDataDefault, EventDataDefault)
                 [] ev.detail = XCB_BUTTON_INDEX_3 -> push("MouseRightBtnUp", EventDataDefault, EventDataDefault)
                 [] OTHER -> Unrecognized(q)
          [] event_enum = XCB_CLIENT_MESSAGE ->
               IF IsDeleteMessage(ev, wm_delete_win)
               THEN [queue |-> Append(q, WinCloseEvent), log |-> <<"info: Client Message">>]
               ELSE [queue |-> q, log |-> <<"info: Client Message">>]
          [] OTHER -> Unrecognized(q)

(***************************************************************************)
(* Bounds of the model.                                                    *)
(***************************************************************************)
\* events in the queue, notifications pending and notifications the running
\* update call has retrieved, together at most
MaxQueue == 3
\* displays the process may open (calls of Window::new on the linux backend)
MaxDisplays == 2

(***************************************************************************)
(* Inputs: the arguments of Window::new and the native notifications the   *)
(* windowing system delivers.                                              *)
(***************************************************************************)
Args ==
    { [name |-> "Test", width |-> 800, height |-> 600, x |-> 0, y |-> 0],
      [name |-> "w", width |-> 640, height |-> 480, x |-> -5, y |-> 7] }

\* a win32 MSG: hwnd is the window's handle, or NULL for a thread message
Zero == MakeLong(0, 0)
Msg(m, w, l) == [hwnd |-> 1, msg |-> m, wparam |-> w, lparam |-> l]
QuitMsg == [hwnd |-> NULL, msg |-> WM_QUIT, wparam |-> Zero, lparam |-> Zero]

WinNotes ==
    { Msg(WM_CLOSE, Zero, Zero), Msg(WM_DESTROY, Zero, Zero), Msg(WM_SHOWWINDOW, MakeLong(1, 0), Zero),
      Msg(WM_SIZE, Zero, MakeLong(800, 600)), Msg(WM_KEYDOWN, MakeLong(65, 0), Zero),
      Msg(WM_MOUSEMOVE, Zero, MakeLong(10, -4)) }

\* an xcb_generic_event_t: the fields update reads, and `state`, the
\* modifier mask a key or button event carries (ShiftMask set while shift is
\* held), which update never reads
XEv(rt, detail, x, y, d0) ==
    [rt |-> rt, detail |-> detail, x |-> x, y |-> y, d0 |-> d0, state |-> 0]
\* an xcb_key_press_event_t / xcb_key_release_event_t with its modifier mask
XKey(rt, detail, state) ==
    [rt |-> rt, detail |-> detail, x |-> 0, y |-> 0, d0 |-> 0, state |-> state]

\* the atom the X server hands out for "WM_DELETE_WINDOW"
Atoms == {300}
\* the atom it hands out for "WM_PROTOCOLS"
ProtoAtoms == {302}

XNotes ==
    { XEv(XCB_KEY_PRESS, 38, 0, 0, 0),
      XEv(XCB_CLIENT_MESSAGE + 128, 0, 0, 0, 300), XEv(XCB_CLIENT_MESSAGE, 0, 0, 0, 301),
      XEv(12, 0, 0, 0, 0) }

(***************************************************************************)
(* State.                                                                  *)
(***************************************************************************)
VARIABLES
    backend,         \* "windows" or "linux": the cfg(target_os) the crate is built for
    window,          \* the Option<Window> the application holds: NoWindow or a Window
    queue,           \* the application's EventDeque
    pending,         \* native notifications posted and not yet retrieved, oldest first
    pc,              \* "idle", "pump" (inside update's loop) or "crashed"
    userdata,        \* windows: the window's GWLP_USERDATA slot
    classRegistered, \* windows: "rovella_window_class" is registered
    winAlive,        \* the native window exists
    displayOpen,     \* linux: displays opened by XOpenDisplay and still open
    autoRepeat,      \* linux: the display's global key auto-repeat is on
    log,             \* diagnostics emitted by the current / most recent call
    lastNew,         \* history: the most recent Window::new call
    call,            \* history: the current / most recent update call: the queue it
                     \* found, what it retrieved since, and how many native events
                     \* it holds unreleased
    lastDestroy,     \* history: the most recent Window::shutdown call
    inp,             \* the input of the pure-function specifications
    out              \* the result of the pure-function specifications

vars == <<backend, window, queue, pending, pc, userdata, classRegistered, winAlive, displayOpen, autoRepeat, log, lastNew, call, lastDestroy, inp, out>>

NoWindow == [some |-> FALSE]
NoPlat == [some |-> FALSE]
NoCall == [state |-> "none", q0 |-> <<>>, pumped |-> <<>>, held |-> 0]
NoNew == [called |-> FALSE]
NoOut == [done |-> FALSE]
NoDestroy == [called |-> FALSE]
QUEUE_ADDR == 1

Init ==
    /\ backend \in {"windows", "linux"}
    /\ window = NoWindow
    /\ queue = <<>>
    /\ pending = <<>>
    /\ pc = "idle"
    /\ userdata = NULL
    /\ classRegistered = FALSE
    /\ winAlive = FALSE
    /\ displayOpen = 0
    /\ autoRepeat = TRUE
    /\ log = <<>>
    /\ lastNew = NoNew
    /\ call = NoCall
    /\ lastDestroy = NoDestroy
    /\ inp = NULL
    /\ out = NoOut

(***************************************************************************)
(* Messages the windowing system sends to the window procedure from inside *)
(* CreateWindowExA and ShowWindow (sent, not posted: window_proc runs      *)
(* before the call returns), and what TranslateMessage posts.              *)
(***************************************************************************)
CreateSent == <<Msg(WM_CREATE, Zero, Zero)>>
ShowSent == <<Msg(WM_SHOWWINDOW, MakeLong(1, 0), Zero), Msg(WM_SIZE, Zero, MakeLong(800, 600)), Msg(WM_ERASEBKGND, Zero, Zero)>>

\* window_proc applied to each message of `msgs` in turn
RECURSIVE SendAll(_, _, _, _, _)
SendAll(msgs, slot, q, err, acc) ==
    IF msgs = <<>> THEN [queue |-> q, log |-> acc]
    ELSE LET r == window_proc(Head(msgs).msg, Head(msgs).wparam, Head(msgs).lparam, slot, q, err)
         IN  SendAll(Tail(msgs), slot, r.queue, err, acc \o r.log)

\* TranslateMessage: a key-down of a character key posts WM_CHAR
TranslateMessage(m) ==
    IF m.msg = WM_KEYDOWN /\ LoWord(m.wparam) \in 48..90
    THEN <<Msg(WM_CHAR, MakeLong(LoWord(m.wparam), 0), m.lparam)>>
    ELSE <<>>

(***************************************************************************)
(* The border rectangle of PlatformWindow::new (windows): a zeroed RECT is  *)
(* allocated, AdjustWindowRectEx grows it by the frame of the window style, *)
(* and it is deallocated before CreateWindowExA is called.                  *)
(***************************************************************************)
\* the frame AdjustWindowRectEx adds for WS_OVERLAPPED | WS_SYSMENU: the
\* border on the left, right and bottom, border and caption on the top
FrameX == 8
FrameTop == 31

ZeroRect == [left |-> 0, top |-> 0, right |-> 0, bottom |-> 0]

AdjustWindowRectEx(rect) ==
    [left |-> rect.left - FrameX, top |-> rect.top - FrameTop,
     right |-> rect.right + FrameX, bottom |-> rect.bottom + FrameX]

\* the position and size CreateWindowExA is called with
CreateRequest(x, y, width, height) == [some |-> TRUE, x |-> x, y |-> y, width |-> width, height |-> height]

NoReq == [some |-> FALSE]
NoRect == [allocs |-> 0, zeroed |-> FALSE, frees |-> 0, freedBeforeCreate |-> FALSE, value |-> ZeroRect]

(***************************************************************************)
(* PlatformWindow::new (windows).  regFail / createFail: the native calls  *)
(* RegisterClassA / CreateWindowExA fail.  Result: the Option returned,    *)
(* the diagnostics, the native state afterwards, the native step that      *)
(* failed, the geometry requested and the border rectangle's life.         *)
(***************************************************************************)
PlatformWindowNewWindows(args, regFail, createFail, registered, q, err) ==
    IF registered \/ regFail
    THEN [plat |-> NoPlat, log |-> <<"fatal: failed to register window class">>,
          classRegistered |-> registered, winAlive |-> FALSE, queue |-> q,
          failed |-> "class", req |-> NoReq, rect |-> NoRect]
    ELSE LET rect == [allocs |-> 1, zeroed |-> TRUE, frees |-> 1, freedBeforeCreate |-> TRUE,
                      value |-> AdjustWindowRectEx(ZeroRect)]
             req == CreateRequest(args.x, args.y, args.width, args.height)
         IN  IF createFail
             THEN [plat |-> NoPlat, log |-> <<"fatal: Failed to create window">>,
                   classRegistered |-> TRUE, winAlive |-> FALSE, queue |-> q,
                   failed |-> "window", req |-> req, rect |-> rect]
             ELSE LET sent == SendAll(CreateSent \o ShowSent, NULL, q, err, <<>>)
                  IN  [plat |-> [some |-> TRUE, hinst |-> 1, hwnd |-> 1],
                       log |-> sent.log, classRegistered |-> TRUE, winAlive |-> TRUE, queue |-> sent.queue,
                       failed |-> "none", req |-> req, rect |-> rect]

(***************************************************************************)
(* PlatformWindow::new (linux).  displayNull: XOpenDisplay returns null;   *)
(* connErr: xcb_connection_has_error is nonzero; createFail: the server     *)
(* refuses the xcb_create_window request (its cookie is never checked);    *)
(* delAtom / protoAtom: the atoms read through the two intern replies;     *)
(* flushOk: xcb_flush succeeds.                                            *)
(***************************************************************************)
\* the PlatformWindow value built at the return
XPlat(delAtom, protoAtom) ==
    [some |-> TRUE, display |-> 1, connection |-> 1, window |-> 1, screen |-> 1,
     wm_protocols |-> protoAtom, wm_delete_win |-> delAtom]

\* `screenNull`: xcb_setup_roots_iterator handed back no screen; the fields
\* read through it are no window's ids, the pointer is stored as it is
PlatformWindowNewLinux(args, displayNull, connErr, screenNull, createFail, delAtom, protoAtom, flushOk, displays, repeat) ==
    IF displayNull
    THEN [plat |-> NoPlat, log |-> <<"fatal: Could not get display">>,
          displayOpen |-> displays, autoRepeat |-> repeat, winAlive |-> FALSE, failed |-> "display"]
    ELSE IF connErr
    THEN [plat |-> NoPlat, log |-> <<"fatal: Unable to connect to X server, have you set one up?">>,
          displayOpen |-> displays + 1, autoRepeat |-> FALSE, winAlive |-> FALSE, failed |-> "connection"]
    ELSE [plat |-> [XPlat(delAtom, protoAtom) EXCEPT !.screen = IF screenNull THEN NULL ELSE @],
          log |-> IF flushOk THEN <<>> ELSE <<"error: Failed to flush stream (xcb connection)">>,
          displayOpen |-> displays + 1, autoRepeat |-> FALSE,
          winAlive |-> ~(createFail \/ screenNull),
          failed |-> IF createFail \/ screenNull THEN "window" ELSE "none"]

(***************************************************************************)
(* Window::new: `p` is what PlatformWindow::new returned.                  *)
(***************************************************************************)
FacadeFatal == "fatal: Platform window couldn't be created"

Range(seq) == {seq[i] : i \in DOMAIN seq}

\* fault-seeded variant: width and height stored crosswise
WindowNewSwapped(args, p) ==
    IF ~p.plat.some
    THEN [window |-> NoWindow, log |-> p.log \o <<FacadeFatal>>]
    ELSE [window |-> [some |-> TRUE, plat_win |-> p.plat, width |-> args.height,
                      height |-> args.width, x |-> args.x, y |-> args.y],
          log |-> p.log]

WindowNew(args, p) ==
    IF ~p.plat.some
    THEN [window |-> NoWindow, log |-> p.log \o <<FacadeFatal>>]
    ELSE [window |-> [some |-> TRUE, plat_win |-> p.plat, width |-> args.width,
                      height |-> args.height, x |-> args.x, y |-> args.y],
          log |-> p.log]

(***************************************************************************)
(* Actions.                                                                *)
(***************************************************************************)
\* what GetLastError() may return
LastErrors == {0, 1400}

\* what a read through a null reply pointer may yield when it does not trap
Garbage == {0, 301}

\* Window::new on the message-loop backend
CreateWindows ==
    /\ backend = "windows" /\ pc = "idle" /\ ~window.some
    /\ \E args \in Args, regFail \in BOOLEAN, createFail \in BOOLEAN, err \in LastErrors :
         LET p == PlatformWindowNewWindows(args, regFail, createFail, classRegistered, queue, err)
             w == WindowNew(args, p)
         IN  /\ window' = w.window
             /\ log' = w.log
             /\ queue' = p.queue
             /\ classRegistered' = p.classRegistered
             /\ winAlive' = p.winAlive
             /\ userdata' = NULL
             /\ lastNew' = [called |-> TRUE, args |-> args, plat |-> p.plat, fatal |-> FacadeFatal \in Range(w.log), delReply |-> NULL,
                            failed |-> p.failed, displays0 |-> displayOpen, class0 |-> classRegistered,
                            req |-> p.req, rect |-> p.rect]
    /\ call' = NoCall
    /\ UNCHANGED <<backend, pending, pc, displayOpen, autoRepeat, lastDestroy, inp, out>>

\* Window::new on the connection/poll backend.  A null screen pointer is
\* dereferenced when the window request is built and a null intern reply at
\* the return: the read traps or yields some value.
CreateLinux ==
    /\ backend = "linux" /\ pc = "idle" /\ ~window.some /\ displayOpen < MaxDisplays
    /\ \E args \in Args, displayNull \in BOOLEAN, connErr \in BOOLEAN, screenNull \in BOOLEAN,
          createFail \in BOOLEAN, flushOk \in BOOLEAN,
          delReply \in Atoms \cup {NULL}, protoReply \in ProtoAtoms \cup {NULL},
          trap \in BOOLEAN, g \in Garbage :
            LET deref == ~displayNull /\ ~connErr /\ (screenNull \/ delReply = NULL \/ protoReply = NULL)
                delAtom == IF delReply = NULL THEN g ELSE delReply
                protoAtom == IF protoReply = NULL THEN g ELSE protoReply
                p == PlatformWindowNewLinux(args, displayNull, connErr, screenNull, createFail, delAtom, protoAtom, flushOk, displayOpen, autoRepeat)
                w == WindowNew(args, p)
            IN  IF deref /\ trap
                THEN /\ pc' = "crashed"
                     /\ displayOpen' = p.displayOpen
                     /\ autoRepeat' = p.autoRepeat
                     /\ winAlive' = p.winAlive
                     /\ log' = IF flushOk \/ screenNull THEN <<>> ELSE <<"error: Failed to flush stream (xcb connection)">>
                     /\ UNCHANGED <<window, lastNew>>
                ELSE /\ pc' = pc
                     /\ window' = w.window
                     /\ log' = w.log
                     /\ displayOpen' = p.displayOpen
                     /\ autoRepeat' = p.autoRepeat
                     /\ winAlive' = p.winAlive
                     /\ lastNew' = [called |-> TRUE, args |-> args, plat |-> p.plat, fatal |-> FacadeFatal \in Range(w.log),
                                    delReply |-> IF p.plat.some THEN delReply ELSE NULL,
                                    failed |-> p.failed, displays0 |-> displayOpen, class0 |-> classRegistered,
                                    req |-> NoReq, rect |-> NoRect]
    /\ call' = NoCall
    /\ UNCHANGED <<backend, queue, pending, userdata, classRegistered, lastDestroy, inp, out>>

\* the windowing system posts a notification for the window
Arrive ==
    /\ pc # "crashed" /\ winAlive
    /\ Len(queue) + Len(pending) + (IF pc = "pump" THEN Len(call.pumped) ELSE 0) < MaxQueue
    /\ Len(pending) + 1 < MaxQueue
    /\ \E n \in (IF backend = "windows" THEN WinNotes ELSE XNotes) : pending' = Append(pending, n)
    /\ UNCHANGED <<backend, window, queue, pc, userdata, classRegistered, winAlive, displayOpen, autoRepeat, log, lastNew, call, lastDestroy, inp, out>>

\* the application takes the oldest event off its queue, between updates
Drain ==
    /\ pc = "idle" /\ queue # <<>>
    /\ queue' = Tail(queue)
    /\ call' = NoCall
    /\ UNCHANGED <<backend, window, pending, pc, userdata, classRegistered, winAlive, displayOpen, autoRepeat, log, lastNew, lastDestroy, inp, out>>

\* one retrieved notification, as the update history records it: what the
\* queue gained and whether the events already there were left as they were
Pumped(n, q, q2) ==
    [note |-> n,
     kept |-> Len(q2) >= Len(q) /\ SubSeq(q2, 1, Len(q)) = q,
     added |-> IF Len(q2) > Len(q) THEN SubSeq(q2, Len(q) + 1, Len(q2)) ELSE <<>>]

\* Window::update -> PlatformWindow::update (windows), up to the loop:
\* SetWindowLongPtrA stores the queue's address in the window's slot
UpdateWindows ==
    /\ backend = "windows" /\ pc = "idle" /\ window.some
    /\ userdata' = IF winAlive THEN QUEUE_ADDR ELSE userdata
    /\ pc' = "pump"
    /\ call' = [state |-> "running", q0 |-> queue, pumped |-> <<>>, held |-> 0]
    /\ log' = <<>>
    /\ UNCHANGED <<backend, window, queue, pending, classRegistered, winAlive, displayOpen, autoRepeat, lastNew, lastDestroy, inp, out>>

\* DefWindowProcA on a message window_proc forwarded to it: its handling of
\* WM_CLOSE is DestroyWindow
DefWindowProcDestroys(m, fwd) == fwd /\ m.msg = WM_CLOSE

\* one turn of `while PeekMessageA(.., PM_REMOVE) != 0`: the oldest message
\* is removed, translated and dispatched to window_proc.  Were the message
\* one that DefWindowProcA answers with DestroyWindow, the window would get
\* WM_DESTROY at once and its posted messages would be discarded.
PumpWindows ==
    /\ backend = "windows" /\ pc = "pump" /\ pending # <<>>
    /\ \E err \in LastErrors :
         LET m == Head(pending)
             r == IF m.hwnd = NULL
                  THEN [queue |-> queue, log |-> <<>>, quit |-> FALSE, def |-> FALSE]
                  ELSE window_proc(m.msg, m.wparam, m.lparam, userdata, queue, err)
             posted == Tail(pending) \o TranslateMessage(m) \o (IF r.quit THEN <<QuitMsg>> ELSE <<>>)
         IN  IF winAlive /\ DefWindowProcDestroys(m, r.def)
             THEN LET d == window_proc(WM_DESTROY, Zero, Zero, userdata, r.queue, err)
                  IN  /\ queue' = d.queue
                      /\ pending' = SelectSeq(posted, LAMBDA n : n.hwnd = NULL)
                                        \o (IF d.quit THEN <<QuitMsg>> ELSE <<>>)
                      /\ log' = log \o r.log \o d.log
                      /\ call' = [call EXCEPT !.pumped = Append(@, Pumped(m, queue, d.queue))]
                      /\ winAlive' = FALSE
                      /\ userdata' = NULL
             ELSE /\ queue' = r.queue
                  /\ pending' = posted
                  /\ log' = log \o r.log
                  /\ call' = [call EXCEPT !.pumped = Append(@, Pumped(m, queue, r.queue))]
                  /\ UNCHANGED <<winAlive, userdata>>
    /\ UNCHANGED <<backend, window, pc, classRegistered, displayOpen, autoRepeat, lastNew, lastDestroy, inp, out>>

\* PlatformWindow::update (linux) entered
UpdateLinux ==
    /\ backend = "linux" /\ pc = "idle" /\ window.some
    /\ pc' = "pump"
    /\ call' = [state |-> "running", q0 |-> queue, pumped |-> <<>>, held |-> 0]
    /\ log' = <<>>
    /\ UNCHANGED <<backend, window, queue, pending, userdata, classRegistered, winAlive, displayOpen, autoRepeat, lastNew, lastDestroy, inp, out>>

\* fault-seeded variant: only events of a recognized type are released
libc_free_recognized(ev) ==
    IF And7f(ev.rt) \in {XCB_KEY_PRESS, XCB_KEY_RELEASE, XCB_MOTION_NOTIFY, XCB_BUTTON_PRESS,
                         XCB_BUTTON_RELEASE, XCB_CLIENT_MESSAGE}
    THEN 1 ELSE 0

\* libc::free(event) after the match: how many times the turn of the loop
\* that retrieved `ev` releases it
libc_free(ev) == 1

\* one turn of the loop: xcb_poll_for_event returned an event, it is
\* translated and freed
PumpLinux ==
    /\ backend = "linux" /\ pc = "pump" /\ pending # <<>>
    /\ LET ev == Head(pending)
           r == xcb_translate(ev, window.plat_win.wm_delete_win, queue)
       IN  /\ queue' = r.queue
           /\ pending' = Tail(pending)
           /\ log' = log \o r.log
           /\ call' = [call EXCEPT !.pumped = Append(@, Pumped(ev, queue, r.queue)),
                                   !.held = @ + 1 - libc_free(ev)]
    /\ UNCHANGED <<backend, window, pc, userdata, classRegistered, winAlive, displayOpen, autoRepeat, lastNew, lastDestroy, inp, out>>

\* the warning of destroy, and what a shutdown call leaves in the history:
\* whether the native handle was a live window when it was called, whether
\* the native release call was issued on it, whether the warning was logged
WarnNullHandle == "warn: Attempted to close HWND with null value"

DestroyRecord(valid, released, lg) ==
    [called |-> TRUE, valid |-> valid, released |-> released, warned |-> WarnNullHandle \in Range(lg)]

\* fault-seeded variant: the empty poll result is translated like an event
UpdateReturnSpurious ==
    /\ pc = "pump" /\ pending = <<>>
    /\ pc' = "idle"
    /\ queue' = Append(queue, Event("None", EventDataDefault, EventDataDefault))
    /\ call' = [call EXCEPT !.state = "returned"]
    /\ UNCHANGED <<backend, window, pending, userdata, classRegistered, winAlive, displayOpen, autoRepeat, log, lastNew, lastDestroy, inp, out>>

\* fault-seeded variant: the loop may stop while notifications are pending
UpdateReturnEarly ==
    /\ pc = "pump"
    /\ pc' = "idle"
    /\ call' = [call EXCEPT !.state = "returned"]
    /\ UNCHANGED <<backend, window, queue, pending, userdata, classRegistered, winAlive, displayOpen, autoRepeat, log, lastNew, lastDestroy, inp, out>>

\* PeekMessageA returned 0 / xcb_poll_for_event returned null: update returns
UpdateReturn ==
    /\ pc = "pump" /\ pending = <<>>
    /\ pc' = "idle"
    /\ call' = [call EXCEPT !.state = "returned"]
    /\ UNCHANGED <<backend, window, queue, pending, userdata, classRegistered, winAlive, displayOpen, autoRepeat, log, lastNew, lastDestroy, inp, out>>

\* Window::shutdown -> PlatformWindow::destroy (windows).  DestroyWindow on
\* a live window sends WM_DESTROY to window_proc and discards the window's
\* posted messages; on a handle that is no longer a window it fails.  The
\* hwnd field is never reset, so every later call passes the same handle.
ShutdownWindows ==
    /\ backend = "windows" /\ pc = "idle" /\ window.some
    /\ \E err \in LastErrors :
         IF window.plat_win.hwnd # NULL
         THEN IF winAlive
              THEN LET r == window_proc(WM_DESTROY, Zero, Zero, userdata, queue, err)
                   IN  /\ queue' = r.queue
                       /\ pending' = SelectSeq(pending, LAMBDA m : m.hwnd = NULL) \o (IF r.quit THEN <<QuitMsg>> ELSE <<>>)
                       /\ log' = r.log
                       /\ winAlive' = FALSE
                       /\ userdata' = NULL
                       /\ lastDestroy' = DestroyRecord(TRUE, TRUE, r.log)
              ELSE /\ log' = <<>>
                   /\ lastDestroy' = DestroyRecord(FALSE, TRUE, <<>>)
                   /\ UNCHANGED <<queue, pending, winAlive, userdata>>
         ELSE /\ log' = <<WarnNullHandle>>
              /\ lastDestroy' = DestroyRecord(FALSE, FALSE, <<WarnNullHandle>>)
              /\ UNCHANGED <<queue, pending, winAlive, userdata>>
    /\ UNCHANGED <<backend, window, pc, classRegistered, displayOpen, autoRepeat, lastNew, call, inp, out>>

\* PlatformWindow::destroy (linux): XAutoRepeatOn, xcb_destroy_window, on
\* every call
ShutdownLinux ==
    /\ backend = "linux" /\ pc = "idle" /\ window.some
    /\ autoRepeat' = TRUE
    /\ winAlive' = FALSE
    /\ log' = <<>>
    /\ lastDestroy' = DestroyRecord(winAlive, TRUE, <<>>)
    /\ UNCHANGED <<backend, window, queue, pending, pc, userdata, classRegistered, displayOpen, lastNew, call, inp, out>>

Next ==
    \/ CreateWindows
    \/ CreateLinux
    \/ Arrive
    \/ Drain
    \/ UpdateWindows
    \/ PumpWindows
    \/ UpdateLinux
    \/ PumpLinux
    \/ UpdateReturn
    \/ ShutdownWindows
    \/ ShutdownLinux

Spec == Init /\ [][Next]_vars

(***************************************************************************)
(* Properties of the lifecycle specification Spec.                         *)
(***************************************************************************)
\* the events the notifications of an update history added, in order
RECURSIVE AddedBy(_)
AddedBy(pumped) ==
    IF pumped = <<>> THEN <<>> ELSE Head(pumped).added \o AddedBy(Tail(pumped))

\* what one notification translates to on its own, with the queue registered
Translated(n) ==
    IF backend = "windows"
    THEN IF n.hwnd = NULL THEN <<>>
         ELSE window_proc(n.msg, n.wparam, n.lparam, QUEUE_ADDR, <<>>, 0).queue
    ELSE xcb_translate(n, window.plat_win.wm_delete_win, <<>>).queue

\* C1: during and after an update call the queue is the queue the call found,
\* followed by the translated events of the notifications it retrieved, in
\* the order retrieved, at most one per notification; what was already in
\* the queue is kept as it was.
C1_UpdateAppendsInOrder ==
    call.state # "none" =>
        /\ queue = call.q0 \o AddedBy(call.pumped)
        /\ \A i \in DOMAIN call.pumped :
             /\ call.pumped[i].kept
             /\ Len(call.pumped[i].added) <= 1
             /\ call.pumped[i].added = Translated(call.pumped[i].note)

\* an update that found one event queued, retrieved two notifications and
\* appended two different events
C1_Witness ==
    /\ call.state = "returned"
    /\ Len(call.q0) = 1
    /\ Len(call.pumped) = 2
    /\ Len(queue) = 3
    /\ queue[2] # queue[3]

\* C2: an update call that retrieved no notification returns with the queue
\* it was given (same length, same events).
C2_NoInputNoChange ==
    call.state = "returned" /\ call.pumped = <<>> => queue = call.q0

\* a second update, with nothing pending, on a queue that still holds events
C2_Witness ==
    /\ call.state = "returned" /\ call.pumped = <<>> /\ pending = <<>>
    /\ Len(queue) = 2

\* a native close notification: WM_CLOSE for the window / a client message
\* carrying the stored delete-window atom
IsCloseNote(n) ==
    IF backend = "windows"
    THEN n.hwnd # NULL /\ n.msg = WM_CLOSE
    ELSE And7f(n.rt) = XCB_CLIENT_MESSAGE /\ n.d0 = window.plat_win.wm_delete_win

\* C3: every close notification an update retrieves appends exactly one
\* event, of kind WinClose with both payload slots zero, and nothing else.
C3_CloseAppendsOneWinClose ==
    \A i \in DOMAIN call.pumped :
        IsCloseNote(call.pumped[i].note) =>
            /\ call.pumped[i].kept
            /\ call.pumped[i].added = <<[e_type |-> "WinClose", data0 |-> 0, data1 |-> 0]>>

\* an update whose only notification was a close: the queue holds one WinClose
C3_Witness ==
    /\ call.state = "returned" /\ call.q0 = <<>>
    /\ Len(call.pumped) = 1 /\ IsCloseNote(call.pumped[1].note)
    /\ Len(queue) = 1 /\ queue[1].e_type = "WinClose"

\* C5 (as claimed): on the message-loop backend every retrieved message the
\* table translates to WinShow or WinResize appends one event of that kind.
C5_ShowAndSizeEnqueued ==
    backend = "windows" =>
        \A i \in DOMAIN call.pumped :
            LET n == call.pumped[i].note
            IN  n.hwnd # NULL /\ EventTypeFrom(n.msg) \in {"WinShow", "WinResize"} =>
                    /\ Len(call.pumped[i].added) = 1
                    /\ call.pumped[i].added[1].e_type = EventTypeFrom(n.msg)

\* C8: on the connection/poll backend the PlatformWindow is the one create
\* returned (its atoms never change), its delete-window atom is the one the
\* server interned, and a retrieved client message appends one WinClose when
\* its first data word equals that stored atom and nothing otherwise.
C8_ClientMessageAgainstStoredAtom ==
    backend = "linux" /\ window.some =>
        /\ window.plat_win = lastNew.plat
        /\ lastNew.delReply # NULL => window.plat_win.wm_delete_win = lastNew.delReply
        /\ \A i \in DOMAIN call.pumped :
             LET n == call.pumped[i].note
             IN  And7f(n.rt) = XCB_CLIENT_MESSAGE =>
                    call.pumped[i].added =
                        IF n.d0 = window.plat_win.wm_delete_win
                        THEN <<[e_type |-> "WinClose", data0 |-> 0, data1 |-> 0]>>
                        ELSE <<>>

\* an update that retrieved a client message with another first word, then
\* one with the interned atom: exactly one WinClose
C8_Witness ==
    /\ backend = "linux" /\ window.some /\ lastNew.delReply # NULL
    /\ call.state = "returned" /\ call.q0 = <<>>
    /\ Len(call.pumped) = 2
    /\ And7f(call.pumped[1].note.rt) = XCB_CLIENT_MESSAGE
    /\ call.pumped[1].note.d0 # lastNew.delReply
    /\ And7f(call.pumped[2].note.rt) = XCB_CLIENT_MESSAGE
    /\ call.pumped[2].note.d0 = lastNew.delReply
    /\ queue = <<[e_type |-> "WinClose", data0 |-> 0, data1 |-> 0]>>

\* C10: after Window::new returned, the application holds no Window exactly
\* when the backend's create returned empty, and then the facade's fatal
\* diagnostic was emitted; when the backend succeeded the Window owns the
\* backend's PlatformWindow and stores the arguments, and no facade fatal
\* diagnostic was emitted.
C10_WindowNewResult ==
    lastNew.called =>
        /\ ~window.some <=> ~lastNew.plat.some
        /\ ~lastNew.plat.some <=> lastNew.fatal
        /\ window.some =>
             /\ window.plat_win = lastNew.plat
             /\ window.width = lastNew.args.width
             /\ window.height = lastNew.args.height
             /\ window.x = lastNew.args.x
             /\ window.y = lastNew.args.y

\* a create whose backend failed: empty result, fatal diagnostic
C10_Witness ==
    lastNew.called /\ ~lastNew.plat.some /\ ~window.some /\ lastNew.fatal

\* C11 (as claimed): whenever a native step of create failed - opening the
\* display or its connection, registering the window class, creating the
\* native window - Window::new returned the empty result.
C11_CreateEmptyOnNativeFailure ==
    lastNew.called /\ lastNew.failed # "none" => ~lastNew.plat.some /\ ~window.some

\* C12 (as claimed): after a create that returned empty, nothing the call
\* acquired is still held: as many displays are open as before the call, and
\* the window class is registered only if it was before the call.
C12_NothingHeldAfterFailedCreate ==
    pc # "crashed" /\ lastNew.called /\ ~lastNew.plat.some =>
        /\ displayOpen = lastNew.displays0
        /\ classRegistered = lastNew.class0

\* C13 (as claimed): on the connection/poll backend key auto-repeat is off
\* only while a created PlatformWindow exists that has not been destroyed;
\* it is on after destroy and after a create that returned empty.
C13_AutoRepeatPaired ==
    backend = "linux" /\ pc # "crashed" =>
        /\ ~autoRepeat => window.some /\ ~lastDestroy.called
        /\ lastDestroy.called => autoRepeat
        /\ lastNew.called /\ ~lastNew.plat.some => autoRepeat

\* C23 (refuted): on the connection/poll backend create never crashes and
\* never reads through an absent result: it ends by returning empty or a
\* PlatformWindow built from a present screen and present intern replies; a
\* failed flush is only logged and the PlatformWindow is still returned.
FlushError == "error: Failed to flush stream (xcb connection)"

C23_CreateNeverReadsAbsentResult ==
    backend = "linux" =>
        /\ pc # "crashed"
        /\ lastNew.called /\ lastNew.plat.some =>
               /\ lastNew.delReply # NULL
               /\ lastNew.plat.screen # NULL
        /\ FlushError \in Range(log) => window.some /\ ~lastNew.fatal

\* C14 (as claimed): a shutdown called when the native handle is null or no
\* longer a live window (a second shutdown included) issues no native
\* release call on the handle and logs the warning.
C14_DestroyOnDeadHandleWarns ==
    lastDestroy.called /\ ~lastDestroy.valid =>
        /\ ~lastDestroy.released
        /\ lastDestroy.warned

\* C16: no event of kind None is ever in the queue, whatever calls were made
\* and whatever notifications, recognized or not, were retrieved.
C16_NoneNeverEnqueued ==
    \A i \in DOMAIN queue : queue[i].e_type # "None"

\* an update that retrieved a notification no arm recognizes and one that is
\* translated: the queue holds the translated event only
C16_Witness ==
    /\ call.state = "returned" /\ call.q0 = <<>>
    /\ Len(call.pumped) = 2
    /\ IF backend = "windows"
       THEN call.pumped[1].note.msg = WM_SIZE
       ELSE And7f(call.pumped[1].note.rt) = 12
    /\ call.pumped[1].added = <<>>
    /\ Len(queue) = 1 /\ queue[1].e_type # "None"

\* C17 (as claimed): on the message-loop backend CreateWindowExA is called
\* with the position and size of the requested client rectangle grown by
\* AdjustWindowRectEx, and the border rectangle is allocated zeroed once and
\* released once, before the window is created.
C17_CreateUsesAdjustedRect ==
    backend = "windows" /\ lastNew.called /\ lastNew.req.some =>
        LET a == lastNew.args
            adj == AdjustWindowRectEx([left |-> 0, top |-> 0, right |-> a.width, bottom |-> a.height])
        IN  /\ lastNew.req.x = a.x + adj.left
            /\ lastNew.req.y = a.y + adj.top
            /\ lastNew.req.width = adj.right - adj.left
            /\ lastNew.req.height = adj.bottom - adj.top
            /\ lastNew.rect.allocs = 1 /\ lastNew.rect.zeroed
            /\ lastNew.rect.frees = 1 /\ lastNew.rect.freedBeforeCreate

\* C19 (as claimed): on the message-loop backend the slot of a live window
\* holds the queue's address while an update call runs, and no longer holds
\* it once the call has returned.
C19_SlotHoldsQueueOnlyDuringUpdate ==
    backend = "windows" =>
        /\ pc = "pump" /\ winAlive => userdata = QUEUE_ADDR
        /\ pc = "idle" => userdata # QUEUE_ADDR

(***************************************************************************)
(* SpecQuiet: the lifecycle with the windowing system posting              *)
(* notifications only between update calls.  update runs on the caller's   *)
(* thread: each turn of its loop, and its return, is taken once enabled.    *)
(***************************************************************************)
ArriveIdle == pc = "idle" /\ Arrive

NextQuiet ==
    \/ CreateWindows
    \/ CreateLinux
    \/ ArriveIdle
    \/ Drain
    \/ UpdateWindows
    \/ PumpWindows
    \/ UpdateLinux
    \/ PumpLinux
    \/ UpdateReturn
    \/ ShutdownWindows
    \/ ShutdownLinux

SpecQuiet ==
    /\ Init
    /\ [][NextQuiet]_vars
    /\ WF_vars(PumpWindows)
    /\ WF_vars(PumpLinux)
    /\ WF_vars(UpdateReturn)

\* the notifications an update history retrieved, in order
Notes(pumped) == [i \in DOMAIN pumped |-> pumped[i].note]

\* a notification produced inside the pump: the WM_CHAR TranslateMessage
\* posts, the quit message PostQuitMessage posts
PostedInside(n) == backend = "windows" /\ (n = QuitMsg \/ n.msg = WM_CHAR)

\* C15: with nothing arriving from outside during the call, every update
\* that entered its loop returns.  The call starts having retrieved nothing;
\* each turn of the loop retrieves exactly the oldest pending notification
\* (retrieved and pending together stay what they were, but for what was
\* posted from inside the pump); and at the return nothing is pending.
C15_UpdateTerminatesDrained ==
    /\ (pc = "pump") ~> (pc = "idle")
    /\ [][/\ pc = "idle" /\ pc' = "pump" => call'.pumped = <<>> /\ pending' = pending
          /\ pc = "pump" /\ pc' = "pump" =>
                LET before == Notes(call.pumped) \o pending
                    after == Notes(call'.pumped) \o pending'
                IN  /\ Len(call'.pumped) = Len(call.pumped) + 1
                    /\ Len(pending) > 0 /\ call'.pumped[Len(call'.pumped)].note = Head(pending)
                    /\ Len(after) >= Len(before)
                    /\ SubSeq(after, 1, Len(before)) = before
                    /\ \A i \in (Len(before) + 1)..Len(after) : PostedInside(after[i])
          /\ pc = "pump" /\ pc' = "idle" => pending' = <<>>]_vars

\* an update that found a destroy notification pending, retrieved it and
\* the quit message posted while handling it, and returned
C15_Witness ==
    /\ backend = "windows" /\ pc = "idle" /\ call.state = "returned"
    /\ Len(call.pumped) = 2
    /\ call.pumped[1].note.msg = WM_DESTROY
    /\ call.pumped[2].note = QuitMsg
    /\ pending = <<>>

(***************************************************************************)
(* SpecProc: the window procedure on one message of a wide range.  It      *)
(* starts inside an update call of a live window with that message pending *)
(* and runs the pump loop to its return.                                   *)
(***************************************************************************)
\* message codes 0..MaxMsgCode, and two codes far above the table
MaxMsgCode == 600
MsgCodes == (0..MaxMsgCode) \cup {49152, 2147483647}

ProcWparams == {MakeLong(lo, hi) : lo \in {0, 65, 321}, hi \in {0, 1, 120, 32767, 32768, 65416}}
ProcLparams == {Zero, MakeLong(10, -4), MakeLong(65535, 32768)}
ProcQueues == {<<>>, <<Event("KeyUp", 27, EventDataDefault)>>}

InitProc ==
    /\ backend = "windows"
    /\ window = [some |-> TRUE, plat_win |-> [some |-> TRUE, hinst |-> 1, hwnd |-> 1],
                 width |-> 800, height |-> 600, x |-> 0, y |-> 0]
    /\ queue \in ProcQueues
    /\ \E m \in MsgCodes, w \in ProcWparams, l \in ProcLparams : pending = <<Msg(m, w, l)>>
    /\ pc = "pump"
    /\ userdata = QUEUE_ADDR
    /\ classRegistered = TRUE
    /\ winAlive = TRUE
    /\ displayOpen = 0
    /\ autoRepeat = TRUE
    /\ log = <<>>
    /\ lastNew = [called |-> TRUE, args |-> [name |-> "Test", width |-> 800, height |-> 600, x |-> 0, y |-> 0],
                  plat |-> [some |-> TRUE, hinst |-> 1, hwnd |-> 1], fatal |-> FALSE, delReply |-> NULL,
                  failed |-> "none", displays0 |-> 0, class0 |-> FALSE,
                  req |-> CreateRequest(0, 0, 800, 600),
                  rect |-> [allocs |-> 1, zeroed |-> TRUE, frees |-> 1, freedBeforeCreate |-> TRUE,
                            value |-> AdjustWindowRectEx(ZeroRect)]]
    /\ call = [state |-> "running", q0 |-> queue, pumped |-> <<>>, held |-> 0]
    /\ lastDestroy = NoDestroy
    /\ inp = NULL
    /\ out = NoOut

NextProc ==
    \/ PumpWindows
    \/ UpdateReturn

SpecProc == InitProc /\ [][NextProc]_vars

\* the codes of the translation table
TableCodes ==
    {WM_CLOSE, WM_SHOWWINDOW, WM_SIZE, WM_KEYDOWN, WM_SYSKEYDOWN, WM_KEYUP, WM_SYSKEYUP,
     WM_MOUSEMOVE, WM_MOUSEWHEEL, WM_LBUTTONDOWN, WM_MBUTTONDOWN, WM_RBUTTONDOWN,
     WM_LBUTTONUP, WM_MBUTTONUP, WM_RBUTTONUP}

\* C4: EventType::from gives every code of the table its EventType and every
\* other code None; and a message whose translation is None makes the
\* callback enqueue nothing.
C4_MessageTable ==
    \A i \in DOMAIN call.pumped :
        LET n == call.pumped[i].note
            t == EventTypeFrom(n.msg)
        IN  /\ n.msg = WM_CLOSE => t = "WinClose"
            /\ n.msg = WM_SHOWWINDOW => t = "WinShow"
            /\ n.msg = WM_SIZE => t = "WinResize"
            /\ n.msg \in {WM_KEYDOWN, WM_SYSKEYDOWN} => t = "KeyDown"
            /\ n.msg \in {WM_KEYUP, WM_SYSKEYUP} => t = "KeyUp"
            /\ n.msg = WM_MOUSEMOVE => t = "MouseMove"
            /\ n.msg = WM_MOUSEWHEEL => t = "MouseWheel"
            /\ n.msg = WM_LBUTTONDOWN => t = "MouseLeftBtnDown"
            /\ n.msg = WM_MBUTTONDOWN => t = "MouseMidBtnDown"
            /\ n.msg = WM_RBUTTONDOWN => t = "MouseRightBtnDown"
            /\ n.msg = WM_LBUTTONUP => t = "MouseLeftBtnUp"
            /\ n.msg = WM_MBUTTONUP => t = "MouseMidBtnUp"
            /\ n.msg = WM_RBUTTONUP => t = "MouseRightBtnUp"
            /\ n.msg \notin TableCodes => t = "None"
            /\ t = "None" => call.pumped[i].added = <<>> /\ call.pumped[i].kept

\* an update that dispatched one message outside the table (WM_PAINT) to
\* the callback: the queue is as it was
C4_Witness ==
    /\ call.state = "returned" /\ call.q0 # <<>>
    /\ Len(call.pumped) = 1 /\ call.pumped[1].note.msg = 15
    /\ EventTypeFrom(15) = "None"
    /\ queue = call.q0

\* C7: a mouse-wheel message whose signed 16-bit delta d is the high word of
\* wparam appends one MouseWheel event with data0.signed = +1 when d > 0,
\* one with data0.signed = -1 when d < 0, nothing when d = 0; data1 is zero.
C7_WheelSign ==
    \A i \in DOMAIN call.pumped :
        LET n == call.pumped[i].note
            hi == n.wparam.hi
            d == IF hi >= 32768 THEN hi - 65536 ELSE hi
            a == call.pumped[i].added
        IN  n.hwnd # NULL /\ n.msg = WM_MOUSEWHEEL =>
                /\ call.pumped[i].kept
                /\ d = 0 => a = <<>>
                /\ d # 0 =>
                     /\ Len(a) = 1
                     /\ a[1].e_type = "MouseWheel"
                     /\ a[1].data1 = 0
                     /\ Signed16(a[1].data0) = IF d > 0 THEN 1 ELSE -1

\* a wheel message of delta -120 appended one MouseWheel event with -1
C7_Witness ==
    /\ call.state = "returned"
    /\ Len(call.pumped) = 1
    /\ call.pumped[1].note.msg = WM_MOUSEWHEEL
    /\ call.pumped[1].note.wparam.hi = 65416
    /\ queue = call.q0 \o <<[e_type |-> "MouseWheel", data0 |-> 65535, data1 |-> 0]>>

\* C9: a key-down or system-key-down message appends a KeyDown event, a
\* key-up or system-key-up message a KeyUp event, whose data0.unsigned is the
\* native code's low 16 bits (the raw code) and whose data1 is zero.
C9_KeyRawCode ==
    \A i \in DOMAIN call.pumped :
        LET n == call.pumped[i].note
        IN  /\ n.hwnd # NULL /\ n.msg \in {WM_KEYDOWN, WM_SYSKEYDOWN} =>
                call.pumped[i].added = <<[e_type |-> "KeyDown", data0 |-> n.wparam.lo, data1 |-> 0]>>
            /\ n.hwnd # NULL /\ n.msg \in {WM_KEYUP, WM_SYSKEYUP} =>
                call.pumped[i].added = <<[e_type |-> "KeyUp", data0 |-> n.wparam.lo, data1 |-> 0]>>

\* a key-down with code 0x10041 appended KeyDown with data0 = 0x41
C9_Witness ==
    /\ call.state = "returned"
    /\ call.pumped # <<>>
    /\ call.pumped[1].note.msg = WM_KEYDOWN
    /\ call.pumped[1].note.wparam = [lo |-> 65, hi |-> 1]
    /\ queue = call.q0 \o <<[e_type |-> "KeyDown", data0 |-> 65, data1 |-> 0]>>

(***************************************************************************)
(* SpecSlot: the window procedure called for one message while the window's *)
(* user-data slot is still empty: the window exists, update has not been    *)
(* called yet.  inp is the thread's last-error code.                        *)
(***************************************************************************)
InitSlot ==
    /\ backend = "windows"
    /\ window = [some |-> TRUE, plat_win |-> [some |-> TRUE, hinst |-> 1, hwnd |-> 1],
                 width |-> 800, height |-> 600, x |-> 0, y |-> 0]
    /\ queue \in ProcQueues
    /\ \E m \in MsgCodes, w \in ProcWparams, l \in ProcLparams : pending = <<Msg(m, w, l)>>
    /\ pc = "idle"
    /\ userdata = NULL
    /\ classRegistered = TRUE
    /\ winAlive = TRUE
    /\ displayOpen = 0
    /\ autoRepeat = TRUE
    /\ log = <<>>
    /\ lastNew = [called |-> TRUE, args |-> [name |-> "Test", width |-> 800, height |-> 600, x |-> 0, y |-> 0],
                  plat |-> [some |-> TRUE, hinst |-> 1, hwnd |-> 1], fatal |-> FALSE, delReply |-> NULL,
                  failed |-> "none", displays0 |-> 0, class0 |-> FALSE,
                  req |-> CreateRequest(0, 0, 800, 600),
                  rect |-> [allocs |-> 1, zeroed |-> TRUE, frees |-> 1, freedBeforeCreate |-> TRUE,
                            value |-> AdjustWindowRectEx(ZeroRect)]]
    /\ call = NoCall
    /\ lastDestroy = NoDestroy
    /\ inp \in LastErrors
    /\ out = NoOut

\* the windowing system calls window_proc for a message of the window
\* outside update's loop; the callback reads the slot as it is
SendOutside ==
    /\ backend = "windows" /\ pc = "idle" /\ winAlive /\ pending # <<>>
    /\ LET m == Head(pending)
           r == window_proc(m.msg, m.wparam, m.lparam, userdata, queue, inp)
       IN  /\ queue' = r.queue
           /\ pending' = Tail(pending)
           /\ log' = r.log
           /\ call' = [state |-> "sent", q0 |-> queue, pumped |-> <<Pumped(m, queue, r.queue)>>, held |-> 0]
    /\ UNCHANGED <<backend, window, pc, userdata, classRegistered, winAlive, displayOpen, autoRepeat, lastNew, lastDestroy, inp, out>>

NextSlot == SendOutside

SpecSlot == InitSlot /\ [][NextSlot]_vars

\* the messages for which window_proc asks for the queue
NeedsQueue(n) ==
    \/ n.msg \in {WM_CLOSE, WM_KEYDOWN, WM_SYSKEYDOWN, WM_KEYUP, WM_SYSKEYUP, WM_MOUSEMOVE,
                  WM_LBUTTONDOWN, WM_MBUTTONDOWN, WM_RBUTTONDOWN, WM_LBUTTONUP, WM_MBUTTONUP, WM_RBUTTONUP}
    \/ n.msg = WM_MOUSEWHEEL /\ n.wparam.hi # 0

\* C18: a message that reaches the callback while the slot is empty leaves
\* the queue as it was; the error diagnostic is emitted exactly when the
\* message needs the queue and the last-error code is nonzero, and nothing
\* else is logged.
C18_EmptySlotDropsNotification ==
    call.state = "sent" /\ userdata = NULL =>
        /\ queue = call.q0
        /\ call.pumped[1].added = <<>>
        /\ log = IF NeedsQueue(call.pumped[1].note) /\ inp # 0
                 THEN <<"error: window proc couldn't retrieve event queue">>
                 ELSE <<>>

\* a close message delivered with the slot empty and last error 1400: the
\* queue is as it was and the error is logged
C18_Witness ==
    /\ call.state = "sent" /\ userdata = NULL /\ inp = 1400
    /\ call.pumped[1].note.msg = WM_CLOSE
    /\ queue = call.q0 /\ queue # <<>>
    /\ log # <<>>

(***************************************************************************)
(* SpecPoll: the poll loop of the connection/poll backend on native events  *)
(* of a wide range.  It starts inside an update call with two events        *)
(* waiting and runs the loop to its return.                                 *)
(***************************************************************************)
\* response types: every code up to 35, and codes with the high bit set
PollTypes ==
    (0..35) \cup {128 + XCB_KEY_PRESS, 128 + XCB_BUTTON_PRESS, 128 + XCB_BUTTON_RELEASE,
                  128 + XCB_CLIENT_MESSAGE, 255}
\* detail: button indexes 0..5 and key codes
PollDetails == (0..5) \cup {9, 38, 39, 50}

PollEvents == {XEv(rt, d, 10, -4, d0) : rt \in PollTypes, d \in PollDetails, d0 \in {300, 301}}
PollSecond == {XEv(12, 0, 0, 0, 0), XEv(XCB_BUTTON_RELEASE, 9, 0, 0, 0)}
\* modifier masks of a key event: none, shift, control, shift and control
ControlMask == 4
PollStates == {0, ShiftMask, ControlMask, ShiftMask + ControlMask}
PollKeys ==
    {XKey(rt, d, st) : rt \in {XCB_KEY_PRESS, XCB_KEY_RELEASE, 128 + XCB_KEY_RELEASE},
                       d \in {9, 38, 39, 50}, st \in PollStates}

InitPoll ==
    /\ backend = "linux"
    /\ \E del \in {300, 301} :
         window = [some |-> TRUE, plat_win |-> XPlat(del, 302),
                   width |-> 800, height |-> 600, x |-> 0, y |-> 0]
    /\ queue \in ProcQueues
    /\ \E e1 \in PollEvents \cup PollKeys, e2 \in PollSecond : pending = <<e1, e2>>
    /\ pc = "pump"
    /\ userdata = NULL
    /\ classRegistered = FALSE
    /\ winAlive = TRUE
    /\ displayOpen = 1
    /\ autoRepeat = FALSE
    /\ log = <<>>
    /\ lastNew = [called |-> TRUE, args |-> [name |-> "Test", width |-> 800, height |-> 600, x |-> 0, y |-> 0],
                  plat |-> window.plat_win, fatal |-> FALSE, delReply |-> window.plat_win.wm_delete_win,
                  failed |-> "none", displays0 |-> 0, class0 |-> FALSE, req |-> NoReq, rect |-> NoRect]
    /\ call = [state |-> "running", q0 |-> queue, pumped |-> <<>>, held |-> 0]
    /\ lastDestroy = NoDestroy
    /\ inp = NULL
    /\ out = NoOut

NextPoll ==
    \/ PumpLinux
    \/ UpdateReturn

SpecPoll == InitPoll /\ [][NextPoll]_vars

\* C20: in the poll loop no retrieved native event is held unreleased when
\* the next poll is issued or when update returns, whatever the event's type
\* or button index; every retrieved event was released exactly once.
C20_EventReleasedBeforeNextPoll ==
    backend = "linux" /\ call.state # "none" =>
        /\ call.held = 0
        /\ \A i \in DOMAIN call.pumped : libc_free(call.pumped[i].note) = 1

\* an update that retrieved an event of an unknown type and a button release
\* of an unknown index, and returned holding nothing
C20_Witness ==
    /\ backend = "linux" /\ call.state = "returned"
    /\ Len(call.pumped) = 2
    /\ And7f(call.pumped[1].note.rt) = 35
    /\ call.pumped[2].note = XEv(XCB_BUTTON_RELEASE, 9, 0, 0, 0)
    /\ call.held = 0
    /\ queue = call.q0

\* the keysym column the claim names: the shifted column while the event's
\* modifier mask has ShiftMask set, the unshifted column otherwise
ShiftHeld(ev) == (ev.state % (2 * ShiftMask)) \div ShiftMask

\* C21 (refuted): a key press (release) enqueues one KeyDown (KeyUp) whose
\* data0 is the low 16 bits of the keysym found for the event's keycode at
\* the column selected by the event's shift state, whatever the keycode.
C21_KeysymColumnFollowsShiftState ==
    backend = "linux" =>
        \A i \in DOMAIN call.pumped :
            LET n == call.pumped[i].note
                t == n.rt % 128
            IN  t \in {XCB_KEY_PRESS, XCB_KEY_RELEASE} =>
                    call.pumped[i].added = <<Event(IF t = XCB_KEY_PRESS THEN "KeyDown" ELSE "KeyUp",
                                         XKeycodeToKeysym(n.detail, ShiftHeld(n)) % U16,
                                         0)>>

\* the button events the claim names, by press/release and button index
ButtonNames ==
    [press \in BOOLEAN |->
        IF press
        THEN <<"MouseLeftBtnDown", "MouseMidBtnDown", "MouseRightBtnDown">>
        ELSE <<"MouseLeftBtnUp", "MouseMidBtnUp", "MouseRightBtnUp">>]

\* C22: a button press or release enqueues exactly one event when the button
\* index is 1, 2 or 3 (Left, Mid, Right; Down for press, Up for release; both
\* payload slots zero) and nothing for any other index; only the low 7 bits
\* of the type field select the case, so the same notification with the high
\* bit set is translated as the one with it clear.
C22_ButtonsByIndexAndLowSevenBits ==
    backend = "linux" =>
        \A i \in DOMAIN call.pumped :
            LET n == call.pumped[i].note
                t == n.rt % 128
            IN  t \in {XCB_BUTTON_PRESS, XCB_BUTTON_RELEASE} =>
                    /\ call.pumped[i].added =
                         IF n.detail \in {1, 2, 3}
                         THEN <<[e_type |-> ButtonNames[t = XCB_BUTTON_PRESS][n.detail],
                                 data0 |-> 0, data1 |-> 0]>>
                         ELSE <<>>
                    /\ call.pumped[i].added = Translated([n EXCEPT !.rt = t])

\* an update that retrieved a press of button 2 with the high bit of the type
\* set and a release of button 9, and enqueued MouseMidBtnDown alone
C22_Witness ==
    /\ backend = "linux" /\ call.state = "returned"
    /\ Len(call.pumped) = 2
    /\ call.pumped[1].note.rt = 128 + XCB_BUTTON_PRESS
    /\ call.pumped[1].note.detail = 2
    /\ call.pumped[2].note.rt = XCB_BUTTON_RELEASE
    /\ call.pumped[2].note.detail = 9
    /\ queue = call.q0 \o <<[e_type |-> "MouseMidBtnDown", data0 |-> 0, data1 |-> 0]>>

(***************************************************************************)
(* SpecNative: the message-loop backend with the windowing system's own    *)
(* traffic.  WM_CREATE reaches window_proc inside CreateWindowExA and      *)
(* WM_DESTROY inside DestroyWindow, which only PlatformWindow::destroy and *)
(* DefWindowProcA (for a forwarded WM_CLOSE) call; neither is posted from  *)
(* outside.  Close requests, background erasure and input arrive freely.   *)
(***************************************************************************)
NativeNotes ==
    { Msg(WM_CLOSE, Zero, Zero), Msg(WM_ERASEBKGND, Zero, Zero),
      Msg(WM_SIZE, Zero, MakeLong(800, 600)), Msg(WM_KEYDOWN, MakeLong(65, 0), Zero) }

InitNative == Init /\ backend = "windows"

ArriveNative ==
    /\ backend = "windows" /\ pc # "crashed" /\ winAlive
    /\ Len(queue) + Len(pending) + (IF pc = "pump" THEN Len(call.pumped) ELSE 0) < MaxQueue
    /\ Len(pending) + 1 < MaxQueue
    /\ \E n \in NativeNotes : pending' = Append(pending, n)
    /\ UNCHANGED <<backend, window, queue, pc, userdata, classRegistered, winAlive, displayOpen, autoRepeat, log, lastNew, call, lastDestroy, inp, out>>

NextNative ==
    \/ CreateWindows
    \/ ArriveNative
    \/ Drain
    \/ UpdateWindows
    \/ PumpWindows
    \/ UpdateReturn
    \/ ShutdownWindows

SpecNative == InitNative /\ [][NextNative]_vars

\* C24: on the message-loop backend a retrieved close notification enqueues
\* WinClose alone and leaves the window alive with no quit message posted; a
\* create or erase-background notification enqueues nothing; the quit message
\* is pending or retrieved only once shutdown has been called, and the window
\* stays alive until then; the shutdown that destroys the window posts the
\* quit message and enqueues nothing; create enqueues nothing.
C24_QuitOnlyAfterDestroy ==
    /\ [](/\ Translated(Msg(WM_CREATE, Zero, Zero)) = <<>>
          /\ \A i \in DOMAIN call.pumped :
                LET n == call.pumped[i].note
                IN  /\ n.hwnd # NULL /\ n.msg = WM_CLOSE =>
                          call.pumped[i].added = <<[e_type |-> "WinClose", data0 |-> 0, data1 |-> 0]>>
                    /\ n.hwnd # NULL /\ n.msg \in {WM_CREATE, WM_ERASEBKGND} =>
                          call.pumped[i].added = <<>>
          /\ QuitMsg \in Range(pending) \cup Range(Notes(call.pumped)) => lastDestroy.called
          /\ window.some /\ ~lastDestroy.called => winAlive)
    /\ [][/\ lastDestroy' # lastDestroy =>
                /\ queue' = queue
                /\ winAlive => ~winAlive' /\ pending' # <<>> /\ pending'[Len(pending')] = QuitMsg
          /\ window' # window => queue' = queue]_vars

\* an update retrieved a close notification and enqueued WinClose; the window
\* stayed alive with no quit message until shutdown destroyed it, and the
\* quit message is now pending
C24_Witness ==
    /\ backend = "windows" /\ call.state = "returned"
    /\ \E i \in DOMAIN call.pumped : call.pumped[i].note.msg = WM_CLOSE
    /\ queue # <<>> /\ queue[Len(queue)].e_type = "WinClose"
    /\ lastDestroy.called /\ lastDestroy.valid /\ ~winAlive
    /\ QuitMsg \in Range(pending)

(***************************************************************************)
(* SpecKey: Key::from(u16) on every 16-bit code, on either backend.        *)
(***************************************************************************)
InitKey ==
    /\ backend \in {"windows", "linux"}
    /\ inp \in 0..(U16 - 1)
    /\ out = NoOut
    /\ window = NoWindow
    /\ queue = <<>>
    /\ pending = <<>>
    /\ pc = "idle"
    /\ userdata = NULL
    /\ classRegistered = FALSE
    /\ winAlive = FALSE
    /\ displayOpen = 0
    /\ autoRepeat = TRUE
    /\ log = <<>>
    /\ lastNew = NoNew
    /\ call = NoCall
    /\ lastDestroy = NoDestroy

\* Key::from(inp)
ApplyKey ==
    /\ ~out.done
    /\ out' = [done |-> TRUE, key |-> IF backend = "windows" THEN KeyFromWindows(inp) ELSE KeyFromLinux(inp)]
    /\ UNCHANGED <<backend, window, queue, pending, pc, userdata, classRegistered, winAlive, displayOpen, autoRepeat, log, lastNew, call, lastDestroy, inp>>

NextKey == ApplyKey

SpecKey == InitKey /\ [][NextKey]_vars

Letters == <<"A", "B", "C", "D", "E", "F", "G", "H", "I", "J", "K", "L", "M", "N", "O", "P", "Q", "R", "S", "T", "U", "V", "W", "X", "Y", "Z">>

Digits == <<"N0", "N1", "N2", "N3", "N4", "N5", "N6", "N7", "N8", "N9">>
Numpad == <<"Numpad0", "Numpad1", "Numpad2", "Numpad3", "Numpad4", "Numpad5", "Numpad6", "Numpad7", "Numpad8", "Numpad9">>
FKeys == <<"F1", "F2", "F3", "F4", "F5", "F6", "F7", "F8", "F9", "F10", "F11", "F12", "F13", "F14", "F15", "F16", "F17", "F18", "F19", "F20", "F21", "F22", "F23", "F24">>

\* the codes the message-loop backend's key table enumerates
WinKeyCodes ==
    {8, 9, 13, 16, 17, 19, 20} \cup (27..47) \cup (48..57) \cup (65..93) \cup {95}
        \cup (96..135) \cup (144..146) \cup (160..165) \cup (186..192)

=============================================================================
